---------------------------- MODULE Spec2Model ----------------------------
(***************************************************************************)
(* A model of the log decoder of the calendar program (src/src/log.rs) and  *)
(* of the loop of pdf::render that cuts a decoded log into years           *)
(* (src/src/main.rs).                                                      *)
(*                                                                         *)
(* The decoder is a serde visitor walk over a TOML document: the root      *)
(* visitor requires the keys "highlights" and "data", the highlights       *)
(* visitor builds the highlight table and the name -> index lookup, and    *)
(* the data visitor reads the date-keyed days.  Each action below is one   *)
(* step of that walk (one required root entry, one loop iteration of a     *)
(* table visitor).  A document is a top-level key sequence and two tables; *)
(* a table's next entry, or its end, is chosen when the decoder asks the   *)
(* table's map cursor for it, and is recorded as read.                     *)
(*                                                                         *)
(* Strings that the code inspects byte by byte (colours) are sequences of  *)
(* byte values; dates are the pair (year, ordinal) that time::Date stores; *)
(* date keys of the source text are calendar triples <<year, month, day>>. *)
(***************************************************************************)
EXTENDS Integers, Sequences, FiniteSets, TLC

VARIABLES
    pc,          \* position of the decoder in the visitor walk
    topKeys,     \* the document's top-level keys, in source order
    topPos,      \* number of top-level keys the root map cursor has yielded
    hlAtEnd,     \* the highlights map cursor has reported the table's end
    dataAtEnd,   \* the data map cursor has reported the table's end
    srcHl,       \* highlights entries the cursor has yielded so far
    srcKeys,     \* data keys the cursor has yielded so far
    srcVals,     \* data values the cursor has yielded so far
    highlights,  \* HighlightIndex.highlights
    indices,     \* HighlightIndex.indices, a function name -> index
    start_date,  \* data::visit_map's start_date
    current_date,\* data::visit_map's current_date
    days,        \* data::visit_map's days
    result,      \* what Log::from_str returned: NoResult, a Log or an error
    colourIn,    \* input of the colour visitor (colour specification)
    colourOut,   \* its result (colour specification)
    rDate,       \* pdf::render's date
    rIter,       \* pdf::render's days_iter
    rPages       \* the year and the list of days of each iteration of render

vars == <<pc, topKeys, topPos, hlAtEnd, dataAtEnd, srcHl, srcKeys, srcVals,
          highlights, indices, start_date, current_date, days, result,
          colourIn, colourOut, rDate, rIter, rPages>>

decoderVars == <<pc, topKeys, topPos, hlAtEnd, dataAtEnd, srcHl, srcKeys,
                 srcVals, highlights, indices, start_date, current_date, days, result>>

colourVars == <<colourIn, colourOut>>

renderVars == <<rDate, rIter, rPages>>

-----------------------------------------------------------------------------
(* Bounds of the model.                                                    *)

MaxHighlights == 2
MaxDays == 3
MaxColourLen == 8
MaxLoopPasses == 400

-----------------------------------------------------------------------------
(* Results.                                                                *)

None == [tag |-> "None"]
Some(v) == [tag |-> "Some", val |-> v]
Ok(v) == [tag |-> "Ok", val |-> v]
Err(kind, found, expected) ==
    [tag |-> "Err", kind |-> kind, found |-> found, expected |-> expected]
NoResult == [tag |-> "NoResult"]
NoDate == [tag |-> "NoDate"]

-----------------------------------------------------------------------------
(* colour: the hex colour decoder.                                         *)

Byte0 == 48     \* b'0'
Byte9 == 57     \* b'9'
ByteA == 65     \* b'A'
ByteF == 70     \* b'F'
ByteHash == 35  \* '#'
Lanes == 8
U8 == 256

\* u8 lane arithmetic wraps.
wrapping_sub(a, b) == (a - b + U8) % U8
wrapping_add(a, b) == (a + b) % U8
shl4(a) == (a * 16) % U8

RECURSIVE bitor(_, _)
bitor(a, b) ==
    IF a = 0 /\ b = 0 THEN 0
    ELSE (IF a % 2 = 1 \/ b % 2 = 1 THEN 1 ELSE 0) + 2 * bitor(a \div 2, b \div 2)

\* Simd::splat(b'0') with the six input bytes copied over lanes 0..5.
simd_load(v) == [i \in 1..Lanes |-> IF i <= 6 THEN v[i] ELSE Byte0]

len_09 == Byte9 - Byte0 + 1
len_af == ByteF - ByteA + 1

\* A bound check that is off by one: ':' passes for a digit.
not_09_off_by_one(simd) ==
    [i \in 1..Lanes |-> wrapping_sub(simd[i], Byte0) > len_09]

not_09(simd) == [i \in 1..Lanes |-> wrapping_sub(simd[i], Byte0) >= len_09]
not_af(simd) == [i \in 1..Lanes |-> wrapping_sub(simd[i], ByteA) >= len_af]

\* A letter's value without the ten added: 'A' counts 0.
simd_values_letters_from_zero(simd) ==
    [i \in 1..Lanes |->
        IF wrapping_sub(simd[i], Byte0) >= len_09
        THEN wrapping_sub(simd[i], ByteA)
        ELSE wrapping_sub(simd[i], Byte0)]

simd_values(simd) ==
    [i \in 1..Lanes |->
        IF not_09(simd)[i]
        THEN wrapping_add(wrapping_sub(simd[i], ByteA), len_09)
        ELSE wrapping_sub(simd[i], Byte0)]

parse_6_hex(v) ==
    LET simd == simd_load(v)
        values == simd_values(simd)
        higher == [j \in 1..4 |-> shl4(values[2 * j - 1])]
        lower == [j \in 1..4 |-> values[2 * j]]
        data == [j \in 1..4 |-> bitor(higher[j], lower[j])]
    IN  IF \E i \in 1..Lanes : not_09(simd)[i] /\ not_af(simd)[i]
        THEN None
        ELSE Some(<<data[1], data[2], data[3]>>)

strip_prefix_hash(v) ==
    IF Len(v) > 0 /\ v[1] = ByteHash THEN Some(Tail(v)) ELSE None

colour_visit_str(v) ==
    LET stripped == strip_prefix_hash(v)
    IN  IF stripped.tag = "None"
        THEN Err("colour must start with #", v, "")
        ELSE IF Len(stripped.val) # 6
        THEN Err("colour must contain 6 hex digits", v, "")
        ELSE LET parsed == parse_6_hex(stripped.val)
             IN  IF parsed.tag = "None"
                 THEN Err("colour must contain 6 hex digits", v, "")
                 ELSE Ok(parsed.val)

-----------------------------------------------------------------------------
(* time::Date as the decoder uses it: deserialising a date key, next_day,  *)
(* weekday, and Display (in Exact's error message).                        *)

MAX_YEAR == 9999

is_leap_year(year) == year % 4 = 0 /\ (year % 25 # 0 \/ year % 16 = 0)

days_in_year(year) == IF is_leap_year(year) THEN 366 ELSE 365

days_in_year_month(year, month) ==
    IF month \in {1, 3, 5, 7, 8, 10, 12} THEN 31
    ELSE IF month \in {4, 6, 9, 11} THEN 30
    ELSE IF is_leap_year(year) THEN 29 ELSE 28

RECURSIVE days_before_month(_, _)
days_before_month(year, month) ==
    IF month = 1 THEN 0
    ELSE days_before_month(year, month - 1) + days_in_year_month(year, month - 1)

\* Date::deserialize of a key <<year, month, day>> of the source text.
Date_deserialize(key) ==
    IF /\ key[1] \in 0..MAX_YEAR
       /\ key[2] \in 1..12
       /\ key[3] >= 1
       /\ key[3] <= days_in_year_month(key[1], key[2])
    THEN Ok([year |-> key[1],
             ordinal |-> days_before_month(key[1], key[2]) + key[3]])
    ELSE Err("invalid date", key, "")

\* Display for Date: the calendar form year-month-day.
Date_display(date) ==
    LET month == CHOOSE m \in 1..12 :
                    /\ days_before_month(date.year, m) < date.ordinal
                    /\ date.ordinal <= days_before_month(date.year, m)
                                         + days_in_year_month(date.year, m)
    IN  <<date.year, month, date.ordinal - days_before_month(date.year, month)>>

next_day(date) ==
    IF date.ordinal = 366 \/ (date.ordinal = 365 /\ ~is_leap_year(date.year))
    THEN IF date.year = MAX_YEAR
         THEN None
         ELSE Some([year |-> date.year + 1, ordinal |-> 1])
    ELSE Some([year |-> date.year, ordinal |-> date.ordinal + 1])

to_julian_day(date) ==
    LET year == date.year - 1
    IN  date.ordinal + 365 * year + (year \div 4) - (year \div 100)
          + (year \div 400) + 1721425

weekday(date) ==
    LET r == to_julian_day(date) % 7
    IN  CASE r = 0 -> "Monday"
          [] r = 1 -> "Tuesday"
          [] r = 2 -> "Wednesday"
          [] r = 3 -> "Thursday"
          [] r = 4 -> "Friday"
          [] r = 5 -> "Saturday"
          [] OTHER -> "Sunday"

\* The match of WrappedDay::visit_map.
weekday_abbrev(w) ==
    CASE w = "Monday" -> "Mon"
      [] w = "Tuesday" -> "Tue"
      [] w = "Wednesday" -> "Wed"
      [] w = "Thursday" -> "Thu"
      [] w = "Friday" -> "Fri"
      [] w = "Saturday" -> "Sat"
      [] OTHER -> "Sun"

-----------------------------------------------------------------------------
(* util: the literal-string and exact-value key matchers.                  *)

LiteralStr_visit_str(v, literal) ==
    IF v # literal THEN Err("invalid value", v, literal) ELSE Ok("unit")

\* The comparison left out: any date passes for the expected one.
Exact_deserialize_any_date(expected, key) ==
    LET value == Date_deserialize(key)
    IN  IF value.tag = "Err" THEN value ELSE Ok("unit")

Exact_deserialize(expected, key) ==
    LET value == Date_deserialize(key)
    IN  IF value.tag = "Err" THEN value
        ELSE IF value.val # expected
        THEN Err("invalid value, expected", Date_display(value.val),
                 Date_display(expected))
        ELSE Ok("unit")

\* The key half of de_map_access_require_entry_seed on the root map cursor.
require_entry_key(keys, pos, key) ==
    IF pos = Len(keys)
    THEN Err("missing field", "", key)
    ELSE LiteralStr_visit_str(keys[pos + 1], key)

-----------------------------------------------------------------------------
(* Highlights.                                                             *)

EmptyMap == [n \in {} |-> 0]

contains_key(map, key) == key \in DOMAIN map

insert(map, key, value) ==
    [n \in DOMAIN map \cup {key} |-> IF n = key THEN value ELSE map[n]]

Shape_deserialize(s) ==
    IF s = "rectangle" THEN Ok("Rectangle")
    ELSE IF s = "circle" THEN Ok("Circle")
    ELSE Err("unknown variant", s, "rectangle or circle")

\* #[derive(Deserialize)] #[serde(deny_unknown_fields)] on a record whose
\* fields stand in the order shape, colour and then, when extra, a further one.
Highlight_deserialize(rec) ==
    LET shape == Shape_deserialize(rec.shape)
        colour == colour_visit_str(rec.colour)
    IN  IF shape.tag = "Err" THEN shape
        ELSE IF colour.tag = "Err" THEN colour
        ELSE IF rec.extra THEN Err("unknown field", "extra", "shape or colour")
        ELSE Ok([shape |-> shape.val, colour |-> colour.val])

\* The index taken after the push: every name points one record too far.
HighlightsVisitor_step_index_after_push(index, entry) ==
    LET value == Highlight_deserialize(entry)
    IN  IF value.tag = "Err" THEN value
        ELSE IF contains_key(index.indices, entry.name)
        THEN Err("duplicate highlight", entry.name, "")
        ELSE Ok([highlights |-> Append(index.highlights, value.val),
                 indices |-> insert(index.indices, entry.name,
                                    Len(index.highlights) + 1)])

\* The contains_key test left out: a later entry takes the name over.
HighlightsVisitor_step_overwrite(index, entry) ==
    LET value == Highlight_deserialize(entry)
    IN  IF value.tag = "Err" THEN value
        ELSE Ok([highlights |-> Append(index.highlights, value.val),
                 indices |-> insert(index.indices, entry.name,
                                    Len(index.highlights))])

\* One iteration of the loop of HighlightsVisitor::visit_map on an entry.
\* map.next_entry()? decodes the key and the value before the body runs.
HighlightsVisitor_step(index, entry) ==
    LET value == Highlight_deserialize(entry)
    IN  IF value.tag = "Err" THEN value
        ELSE IF contains_key(index.indices, entry.name)
        THEN Err("duplicate highlight", entry.name, "")
        ELSE Ok([highlights |-> Append(index.highlights, value.val),
                 indices |-> insert(index.indices, entry.name,
                                    Len(index.highlights))])

-----------------------------------------------------------------------------
(* day and data.                                                           *)

\* usize::MAX; the model's integers are 32 bits wide, so it is the largest
\* of those.
USIZE_MAX == 2147483647

Day_highlight(day) ==
    IF day.highlight = USIZE_MAX THEN None ELSE Some(day.highlight)

\* The is_empty test left out: the empty string is looked up as a name.
day_visit_str_lookup_empty(map, v) ==
    IF ~contains_key(map, v) THEN Err("no known highlight", v, "")
    ELSE Ok([highlight |-> map[v]])

day_visit_str(map, v) ==
    IF v = "" THEN Ok([highlight |-> USIZE_MAX])
    ELSE IF ~contains_key(map, v) THEN Err("no known highlight", v, "")
    ELSE Ok([highlight |-> map[v]])

Panic == [tag |-> "Panic"]

\* The label read and not compared.
WrappedDay_visit_map_any_label(map, date, val) ==
    IF val.nkeys = 0 THEN Panic ELSE day_visit_str(map, val.day)

\* WrappedDay::visit_map on a value map of val.nkeys entries whose first key
\* is val.label with the value val.day.  The Option that next_key_seed
\* returns is dropped, so on an empty map next_value_seed is called with no
\* key read, which the toml map cursor answers with a panic.
WrappedDay_visit_map(map, date, val) ==
    IF val.nkeys = 0 THEN Panic
    ELSE LET key == LiteralStr_visit_str(val.label, weekday_abbrev(weekday(date)))
         IN  IF key.tag = "Err" THEN key ELSE day_visit_str(map, val.day)

-----------------------------------------------------------------------------
(* The documents the decoder is run on.                                    *)

TopKeyNames == {"highlights", "data", "extra"}

\* A TOML table holds each key once.
TopKeyOrders ==
    UNION {{k \in [1..n -> TopKeyNames] :
              \A i, j \in 1..n : i # j => k[i] # k[j]} : n \in 0..3}

NameSet == {"", "sick"}
DayStrings == NameSet \cup {"flu"}
WeekdayLabels == {"Mon", "Tue", "Wed", "Thu", "Fri", "Sat", "Sun"}

\* "#C92DA1", "#4AG4B9" and "4AA4B9".
ColourC92DA1 == <<35, 67, 57, 50, 68, 65, 49>>
Colour4AG4B9 == <<35, 52, 65, 71, 52, 66, 57>>
ColourNoHash == <<52, 65, 65, 52, 66, 57>>

\* Highlight records: the two shapes, and one record for each way a record
\* can be invalid.
HighlightRecords ==
    {[shape |-> "rectangle", colour |-> ColourC92DA1, extra |-> FALSE],
     [shape |-> "circle", colour |-> ColourC92DA1, extra |-> FALSE],
     [shape |-> "triangle", colour |-> ColourC92DA1, extra |-> FALSE],
     [shape |-> "circle", colour |-> Colour4AG4B9, extra |-> FALSE],
     [shape |-> "circle", colour |-> ColourNoHash, extra |-> FALSE],
     [shape |-> "circle", colour |-> ColourC92DA1, extra |-> TRUE]}

HighlightEntries ==
    {[name |-> n, shape |-> r.shape, colour |-> r.colour, extra |-> r.extra] :
        n \in NameSet, r \in HighlightRecords}

\* Values of a data entry: a map of nkeys entries whose first is label = day.
DayValues ==
    {[nkeys |-> 0, label |-> "", day |-> ""]}
      \cup [nkeys : {1}, label : WeekdayLabels, day : DayStrings]
      \cup [nkeys : {2}, label : WeekdayLabels, day : {""}]

\* First date keys: a Monday, dates before a year's end, before a leap day,
\* before the end of a common February and before the last date there is,
\* and no date at all.
FirstKeys ==
    {<<2024, 1, 1>>, <<2023, 12, 30>>, <<2024, 2, 28>>, <<2023, 2, 27>>,
     <<9999, 12, 30>>, <<2023, 2, 30>>}

\* Date keys that may follow the key k in the source text.
NextKeys(k) ==
    {<<k[1], k[2], k[3] + 1>>, <<k[1], k[2] + 1, 1>>, <<k[1] + 1, 1, 1>>,
     <<k[1], k[2], k[3] + 2>>, k, <<k[1], k[2], k[3] - 1>>}

-----------------------------------------------------------------------------
(* The decoder.                                                            *)

Log(hl, start, ds) ==
    [tag |-> "Log", highlights |-> hl, start_date |-> start, days |-> ds]

Log_start_date(log) == log.start_date

Log_days(log) == [highlights |-> log.highlights, iter |-> log.days]

Days_len(d) == Len(d.iter)

\* Days::next: the item it yields, or the panic of the slice index
\* &self.highlights[i] on an index that is out of range.
Days_next(d) ==
    IF d.iter = <<>> THEN None
    ELSE LET h == Day_highlight(Head(d.iter))
         IN  IF h.tag = "None" THEN Some(None)
             ELSE IF h.val >= Len(d.highlights) THEN Panic
             ELSE Some(Some(d.highlights[h.val + 1]))

Days_advance(d) == [d EXCEPT !.iter = IF @ = <<>> THEN @ ELSE Tail(@)]

\* What the iterator yields until it is exhausted, or panics.
RECURSIVE Days_collect(_)
Days_collect(d) ==
    IF Days_next(d).tag = "None" THEN <<>>
    ELSE IF Days_next(d).tag = "Panic" THEN <<Panic>>
    ELSE <<Days_next(d).val>> \o Days_collect(Days_advance(d))

Init ==
    /\ pc = "require_highlights"
    /\ topKeys \in TopKeyOrders
    /\ topPos = 0
    /\ hlAtEnd = FALSE
    /\ dataAtEnd = FALSE
    /\ srcHl = <<>>
    /\ srcKeys = <<>>
    /\ srcVals = <<>>
    /\ highlights = <<>>
    /\ indices = EmptyMap
    /\ start_date = NoDate
    /\ current_date = NoDate
    /\ days = <<>>
    /\ result = NoResult
    /\ colourIn = <<>>
    /\ colourOut = NoResult
    /\ rDate = NoDate
    /\ rIter = NoResult
    /\ rPages = <<>>

\* A `?` that returns the error from Log::from_str.
Return(r) ==
    /\ pc' = "returned"
    /\ result' = r

\* What the root map cursor has yielded after require_entry_key.
root_cursor_after(keys, pos) == IF pos = Len(keys) THEN pos ELSE pos + 1

\* DeVisitor::visit_map, de_map_access_require_entry(&mut map, "highlights"),
\* up to the point where HighlightsVisitor::visit_map has built an empty index.
RootRequireHighlights ==
    /\ pc = "require_highlights"
    /\ LET key == require_entry_key(topKeys, topPos, "highlights")
       IN  /\ topPos' = root_cursor_after(topKeys, topPos)
           /\ IF key.tag = "Err"
              THEN Return(key)
              ELSE /\ pc' = "highlights"
                   /\ UNCHANGED result
    /\ UNCHANGED <<topKeys, hlAtEnd, dataAtEnd, srcHl, srcKeys, srcVals,
                   highlights, indices, start_date, current_date, days,
                   colourVars, renderVars>>

\* HighlightsVisitor::visit_map: one turn of the loop on a further entry.
HighlightsNextEntry ==
    /\ pc = "highlights"
    /\ Len(srcHl) < MaxHighlights
    /\ \E entry \in HighlightEntries :
          LET r == HighlightsVisitor_step(
                       [highlights |-> highlights, indices |-> indices], entry)
          IN  /\ srcHl' = Append(srcHl, entry)
              /\ IF r.tag = "Err"
                 THEN /\ Return(r)
                      /\ UNCHANGED <<highlights, indices>>
                 ELSE /\ highlights' = r.val.highlights
                      /\ indices' = r.val.indices
                      /\ UNCHANGED <<pc, result>>
    /\ UNCHANGED <<topKeys, topPos, hlAtEnd, dataAtEnd, srcKeys, srcVals,
                   start_date, current_date, days, colourVars, renderVars>>

\* HighlightsVisitor::visit_map: next_entry finds the table at its end.
HighlightsEnd ==
    /\ pc = "highlights"
    /\ hlAtEnd' = TRUE
    /\ pc' = "require_data"
    /\ UNCHANGED <<topKeys, topPos, dataAtEnd, srcHl, srcKeys, srcVals,
                   highlights, indices, start_date, current_date, days, result,
                   colourVars, renderVars>>

\* DeVisitor::visit_map, de_map_access_require_entry_seed(&mut map, "data",
\* seed), up to the entry of data's visit_map.
RootRequireData ==
    /\ pc = "require_data"
    /\ LET key == require_entry_key(topKeys, topPos, "data")
       IN  /\ topPos' = root_cursor_after(topKeys, topPos)
           /\ IF key.tag = "Err"
              THEN Return(key)
              ELSE /\ pc' = "data_first_key"
                   /\ UNCHANGED result
    /\ UNCHANGED <<topKeys, hlAtEnd, dataAtEnd, srcHl, srcKeys, srcVals,
                   highlights, indices, start_date, current_date, days,
                   colourVars, renderVars>>

\* An empty table taken for one that starts at a default date.
first_key_ok_or_else_default(opt) ==
    IF opt.tag = "None" THEN Ok([year |-> 1, ordinal |-> 1]) ELSE Ok(opt.val)

\* data's visit_map: .ok_or_else(|| invalid_length(0, &"a non-empty table"))
\* on the Option that next_key returned.
first_key_ok_or_else(opt) ==
    IF opt.tag = "None"
    THEN Err("invalid length", 0, "a non-empty table")
    ELSE Ok(opt.val)

\* data's visit_map: map.next_key::<Date>()?.ok_or_else(..)? on an empty table.
DataFirstKeyNone ==
    /\ pc = "data_first_key"
    /\ dataAtEnd' = TRUE
    /\ LET r == first_key_ok_or_else(None)
       IN  IF r.tag = "Err"
           THEN /\ Return(r)
                /\ UNCHANGED <<start_date, current_date>>
           ELSE /\ start_date' = r.val
                /\ current_date' = r.val
                /\ pc' = "data_value"
                /\ UNCHANGED result
    /\ UNCHANGED <<topKeys, topPos, hlAtEnd, srcHl, srcKeys, srcVals,
                   highlights, indices, days, colourVars, renderVars>>

\* data's visit_map: map.next_key::<Date>()? on the first entry.
DataFirstKey ==
    /\ pc = "data_first_key"
    /\ \E key \in FirstKeys :
          LET date == Date_deserialize(key)
              r == IF date.tag = "Err" THEN date
                   ELSE first_key_ok_or_else(Some(date.val))
          IN  /\ srcKeys' = Append(srcKeys, key)
              /\ IF r.tag = "Err"
                 THEN /\ Return(r)
                      /\ UNCHANGED <<start_date, current_date>>
                 ELSE /\ start_date' = r.val
                      /\ current_date' = r.val
                      /\ pc' = "data_value"
                      /\ UNCHANGED result
    /\ UNCHANGED <<topKeys, topPos, hlAtEnd, dataAtEnd, srcHl, srcVals,
                   highlights, indices, days, colourVars, renderVars>>

\* data's visit_map: days.push(map.next_value_seed(WrappedDay {..})?) and
\* current_date = current_date.next_day().unwrap().
DataValue ==
    /\ pc = "data_value"
    /\ \E val \in DayValues :
          LET day == WrappedDay_visit_map(indices, current_date, val)
              next == next_day(current_date)
          IN  /\ srcVals' = Append(srcVals, val)
              /\ IF day.tag = "Panic"
                 THEN /\ pc' = "panicked"
                      /\ UNCHANGED <<days, current_date, result>>
                 ELSE IF day.tag = "Err"
                 THEN /\ Return(day)
                      /\ UNCHANGED <<days, current_date>>
                 ELSE IF next.tag = "None"
                 THEN /\ pc' = "panicked"
                      /\ days' = Append(days, day.val)
                      /\ UNCHANGED <<current_date, result>>
                 ELSE /\ pc' = "data_next_key"
                      /\ days' = Append(days, day.val)
                      /\ current_date' = next.val
                      /\ UNCHANGED result
    /\ UNCHANGED <<topKeys, topPos, hlAtEnd, dataAtEnd, srcHl, srcKeys,
                   highlights, indices, start_date, colourVars, renderVars>>

\* The loop left after the first further key.
loop_breaks_on_some == FALSE

\* data's visit_map: the match on next_key_seed's Ok value: whether the loop
\* goes on after Some(()).
loop_continues_on_some == TRUE

\* data's visit_map: match map.next_key_seed(Exact(current_date))? on a
\* further key.
DataNextKey ==
    /\ pc = "data_next_key"
    /\ Len(srcKeys) < MaxDays
    /\ \E key \in NextKeys(srcKeys[Len(srcKeys)]) :
          LET r == Exact_deserialize(current_date, key)
          IN  /\ srcKeys' = Append(srcKeys, key)
              /\ IF r.tag = "Err"
                 THEN Return(r)
                 ELSE IF loop_continues_on_some
                 THEN /\ pc' = "data_value"
                      /\ UNCHANGED result
                 ELSE Return(Log(highlights, start_date, days))
    /\ UNCHANGED <<topKeys, topPos, hlAtEnd, dataAtEnd, srcHl, srcVals,
                   highlights, indices, start_date, current_date, days,
                   colourVars, renderVars>>

\* data's visit_map: next_key_seed finds the table at its end, the loop
\* breaks, and DeVisitor::visit_map returns Ok(Log {..}).
DataEnd ==
    /\ pc = "data_next_key"
    /\ dataAtEnd' = TRUE
    /\ Return(Log(highlights, start_date, days))
    /\ UNCHANGED <<topKeys, topPos, hlAtEnd, srcHl, srcKeys, srcVals,
                   highlights, indices, start_date, current_date, days,
                   colourVars, renderVars>>

Next ==
    \/ RootRequireHighlights
    \/ HighlightsNextEntry
    \/ HighlightsEnd
    \/ RootRequireData
    \/ DataFirstKeyNone
    \/ DataFirstKey
    \/ DataValue
    \/ DataNextKey
    \/ DataEnd

Spec == Init /\ [][Next]_vars

-----------------------------------------------------------------------------
(* The colour visitor on its own: colour::DeVisitor::visit_str applied to  *)
(* one string.                                                             *)

\* '0'..'9' and 'A'..'F'.
HexDigitBytes == (48..57) \cup (65..70)

\* NUL, '#', '/', ':', '@', 'G', '`', 'a', 'f', 'g', a UTF-8 lead byte, 0xFF.
OtherBytes == {0, 35, 47, 58, 64, 71, 96, 97, 102, 103, 195, 255}

ProbeBytes == HexDigitBytes \cup OtherBytes

\* "#4AA4B9".
Colour4AA4B9 == <<35, 52, 65, 65, 52, 66, 57>>

ColourBases == {ColourC92DA1, Colour4AA4B9}

\* The base b cut or, with further digits, lengthened to n bytes.
Resized(b, n) ==
    [i \in 1..n |-> IF i <= Len(b) THEN b[i] ELSE Byte0 + (i % 10)]

Substituted(s, p, a) == [i \in 1..Len(s) |-> IF i = p THEN a ELSE s[i]]

\* Strings of the right length with two neighbouring bytes replaced, and
\* strings of every length, with and without their first byte, with one
\* byte replaced.
ColourInputs ==
    {Substituted(Substituted(b, p, a1), p + 1, a2) :
        b \in ColourBases, p \in 1..6, a1 \in ProbeBytes, a2 \in ProbeBytes}
      \cup UNION {
             {Substituted(Resized(b, n), p, a),
              Tail(Substituted(Resized(b, n), p, a))} :
                 b \in ColourBases, n \in 1..MaxColourLen,
                 p \in 1..MaxColourLen, a \in ProbeBytes}
      \cup {<<>>}

InitColour ==
    /\ pc = "colour"
    /\ topKeys = <<>>
    /\ topPos = 0
    /\ hlAtEnd = FALSE
    /\ dataAtEnd = FALSE
    /\ srcHl = <<>>
    /\ srcKeys = <<>>
    /\ srcVals = <<>>
    /\ highlights = <<>>
    /\ indices = EmptyMap
    /\ start_date = NoDate
    /\ current_date = NoDate
    /\ days = <<>>
    /\ result = NoResult
    /\ colourIn \in ColourInputs
    /\ colourOut = NoResult
    /\ rDate = NoDate
    /\ rIter = NoResult
    /\ rPages = <<>>

\* Colour::deserialize: deserializer.deserialize_str(DeVisitor).
ColourDeserialize ==
    /\ pc = "colour"
    /\ colourOut = NoResult
    /\ colourOut' = colour_visit_str(colourIn)
    /\ UNCHANGED <<decoderVars, colourIn, renderVars>>

NextColour == ColourDeserialize

SpecColour == InitColour /\ [][NextColour]_vars

-----------------------------------------------------------------------------
(* pdf::render (src/src/main.rs): the loop that cuts the log into years.   *)

RenderPanic(why) == [tag |-> "Panic", why |-> why]

\* Date::from_ordinal_date(year, 1).unwrap().
from_ordinal_date(year, ordinal) == [year |-> year, ordinal |-> ordinal]

\* One pass of while past_date != date { days.push(None);
\*                                        past_date = past_date.next_day().unwrap(); }
\* on the loop's state: the test, then the body.
render_pad_step(st, date) ==
    IF st.tag # "Run" THEN st
    ELSE IF st.past_date = date THEN Ok(st.days)
    ELSE LET next == next_day(st.past_date)
         IN  IF next.tag = "None" THEN RenderPanic("render_panicked_next_day")
             ELSE [st EXCEPT !.past_date = next.val, !.days = Append(@, None)]

\* n passes of the loop, the first half and then the second.
RECURSIVE render_pad_run(_, _, _)
render_pad_run(st, date, n) ==
    IF n = 0 THEN st
    ELSE IF n = 1 THEN render_pad_step(st, date)
    ELSE LET half == render_pad_run(st, date, n \div 2)
         IN  IF half.tag # "Run" THEN half
             ELSE render_pad_run(half, date, n - (n \div 2))

render_pad(past_date, date, list) ==
    render_pad_run([tag |-> "Run", past_date |-> past_date, days |-> list],
                   date, MaxLoopPasses)

\* Option::unwrap_or_default on what days_iter.next() returned.
unwrap_or_default(opt) == IF opt.tag = "None" THEN None ELSE opt.val

\* One pass of while year == date.year() {
\*     days.push(days_iter.next().unwrap_or_default());
\*     date = date.next_day().unwrap(); }
render_fill_step(st, year) ==
    IF st.tag # "Run" THEN st
    ELSE IF year # st.date.year
    THEN Ok([date |-> st.date, iter |-> st.iter, days |-> st.days])
    ELSE LET item == Days_next(st.iter)
             next == next_day(st.date)
         IN  IF item.tag = "Panic" THEN RenderPanic("render_panicked_index")
             ELSE IF next.tag = "None" THEN RenderPanic("render_panicked_next_day")
             ELSE [st EXCEPT !.date = next.val,
                             !.iter = Days_advance(@),
                             !.days = Append(@, unwrap_or_default(item))]

RECURSIVE render_fill_run(_, _, _)
render_fill_run(st, year, n) ==
    IF n = 0 THEN st
    ELSE IF n = 1 THEN render_fill_step(st, year)
    ELSE LET half == render_fill_run(st, year, n \div 2)
         IN  IF half.tag # "Run" THEN half
             ELSE render_fill_run(half, year, n - (n \div 2))

render_fill(year, date, it, list) ==
    render_fill_run([tag |-> "Run", date |-> date, iter |-> it, days |-> list],
                    year, MaxLoopPasses)

\* The number of days.next().unwrap() calls of the month and day loops.
RECURSIVE render_draws(_, _)
render_draws(year, month) ==
    IF month = 0 THEN 0
    ELSE render_draws(year, month - 1) + days_in_year_month(year, month)

\* One iteration of render's outer loop, from let year = date.year() to the
\* end of the month loop.  A loop that has not ended within MaxLoopPasses
\* passes stops the model at "render_passes_exceeded".
render_year(date, it) ==
    LET year == date.year
        padded == render_pad(from_ordinal_date(year, 1), date, <<>>)
        filled == IF padded.tag # "Ok" THEN padded
                  ELSE render_fill(year, date, it, padded.val)
    IN  IF filled.tag = "Panic" THEN filled
        ELSE IF filled.tag = "Run" THEN RenderPanic("render_passes_exceeded")
        ELSE IF Len(filled.val.days) # days_in_year(year)
        THEN RenderPanic("render_assert_failed")
        ELSE IF Len(filled.val.days) < render_draws(year, 12)
        THEN RenderPanic("render_panicked_draw")
        ELSE Ok([year |-> year, date |-> filled.val.date,
                 iter |-> filled.val.iter, days |-> filled.val.days])

\* pdf::render starts on the Log that main parsed:
\* let mut date = log.start_date(); let mut days_iter = log.days().
RenderStart ==
    /\ pc = "returned"
    /\ result.tag = "Log"
    /\ rDate' = Log_start_date(result)
    /\ rIter' = Log_days(result)
    /\ pc' = "render_loop"
    /\ UNCHANGED <<topKeys, topPos, hlAtEnd, dataAtEnd, srcHl, srcKeys, srcVals,
                   highlights, indices, start_date, current_date, days, result,
                   colourVars, rPages>>

\* pdf::render: one iteration of while days_iter.len() != 0.
RenderYear ==
    /\ pc = "render_loop"
    /\ Days_len(rIter) # 0
    /\ LET r == render_year(rDate, rIter)
       IN  IF r.tag = "Panic"
           THEN /\ pc' = r.why
                /\ UNCHANGED renderVars
           ELSE /\ rDate' = r.val.date
                /\ rIter' = r.val.iter
                /\ rPages' = Append(rPages, [year |-> r.val.year, days |-> r.val.days])
                /\ UNCHANGED pc
    /\ UNCHANGED <<topKeys, topPos, hlAtEnd, dataAtEnd, srcHl, srcKeys, srcVals,
                   highlights, indices, start_date, current_date, days, result,
                   colourVars>>

\* pdf::render: days_iter.len() == 0 ends the loop.
RenderEnd ==
    /\ pc = "render_loop"
    /\ Days_len(rIter) = 0
    /\ pc' = "rendered"
    /\ UNCHANGED <<topKeys, topPos, hlAtEnd, dataAtEnd, srcHl, srcKeys, srcVals,
                   highlights, indices, start_date, current_date, days, result,
                   colourVars, renderVars>>

\* Decoded logs: a table of two highlights, a first day before or at the end
\* of a common year, of a leap year and of the last year, and up to MaxDays
\* days that hold the sentinel or an index into the table.
RenderHighlights ==
    <<Highlight_deserialize([shape |-> "rectangle", colour |-> ColourC92DA1,
                             extra |-> FALSE]).val,
      Highlight_deserialize([shape |-> "circle", colour |-> Colour4AA4B9,
                             extra |-> FALSE]).val>>

RenderStartKeys ==
    {<<2023, 12, 30>>, <<2023, 12, 31>>, <<2024, 1, 1>>, <<2024, 2, 28>>,
     <<2024, 12, 30>>, <<9998, 12, 31>>, <<9999, 12, 30>>}

RenderDays ==
    UNION {[1..n -> [highlight : {USIZE_MAX} \cup (0..(Len(RenderHighlights) - 1))]] :
              n \in 1..MaxDays}

RenderLogs ==
    {Log(RenderHighlights, Date_deserialize(k).val, d) :
        k \in RenderStartKeys, d \in RenderDays}

InitRender ==
    /\ pc = "returned"
    /\ topKeys = <<"highlights", "data">>
    /\ topPos = 2
    /\ hlAtEnd = TRUE
    /\ dataAtEnd = TRUE
    /\ srcHl = <<>>
    /\ srcKeys = <<>>
    /\ srcVals = <<>>
    /\ highlights = <<>>
    /\ indices = EmptyMap
    /\ start_date = NoDate
    /\ current_date = NoDate
    /\ days = <<>>
    /\ result \in RenderLogs
    /\ colourIn = <<>>
    /\ colourOut = NoResult
    /\ rDate = NoDate
    /\ rIter = NoResult
    /\ rPages = <<>>

NextRender ==
    \/ RenderStart
    \/ RenderYear
    \/ RenderEnd

SpecRender == InitRender /\ [][NextRender]_vars

-----------------------------------------------------------------------------
(* Properties of the colour visitor (checked under SpecColour).            *)

\* ^#[0-9A-F]{6}$ on a byte string.
MatchesColourPattern(s) ==
    /\ Len(s) = 7
    /\ s[1] = 35
    /\ \A i \in 2..7 : s[i] \in HexDigitBytes

\* The value of one hex digit, and the per-character decode of six of them.
NaiveDigit(c) == IF c \in 48..57 THEN c - 48 ELSE c - 55

NaiveDecode(s) ==
    IF \A i \in 1..6 : s[i] \in HexDigitBytes
    THEN Some([j \in 1..3 |-> 16 * NaiveDigit(s[2 * j - 1]) + NaiveDigit(s[2 * j])])
    ELSE None

\* C6: a colour string is accepted if and only if it is '#' followed by
\* exactly six characters each in 0-9 or A-F; a missing '#', another length
\* and any other character are rejected, whatever the padding lanes hold.
C6_AcceptedIffPattern ==
    colourOut # NoResult =>
        /\ colourOut.tag \in {"Ok", "Err"}
        /\ (colourOut.tag = "Ok") <=> MatchesColourPattern(colourIn)

\* "#4AG4B9" was decoded, and rejected.
C6_Witness == colourIn = Colour4AG4B9 /\ colourOut.tag = "Err"

\* C7: on every six-byte input parse_6_hex agrees with the per-character
\* decode: it accepts the same strings and returns the same three bytes,
\* byte j = 16 * value(c_2j) + value(c_2j+1).
C7_BytesAsNaiveDecode ==
    (colourOut # NoResult /\ Len(colourIn) = 7 /\ colourIn[1] = 35) =>
        LET naive == NaiveDecode(Tail(colourIn))
        IN  /\ (colourOut.tag = "Ok") <=> (naive.tag = "Some")
            /\ colourOut.tag = "Ok" => colourOut.val = naive.val

\* "#C92DA1" was decoded to [0xC9, 0x2D, 0xA1].
C7_Witness ==
    /\ colourIn = ColourC92DA1
    /\ colourOut.tag = "Ok"
    /\ colourOut.val = <<201, 45, 161>>

-----------------------------------------------------------------------------
(* The calendar, stated on the date keys of the source text and apart from *)
(* the decoder's (year, ordinal) arithmetic.                               *)

GregorianLeap(y) == y % 4 = 0 /\ (y % 100 # 0 \/ y % 400 = 0)

GregorianMonthLength(y, m) ==
    CASE m = 2 -> IF GregorianLeap(y) THEN 29 ELSE 28
      [] m \in {4, 6, 9, 11} -> 30
      [] OTHER -> 31

\* A date of the calendar that a four-digit year can write.
IsCalendarDate(k) ==
    /\ k[1] \in 0..9999
    /\ k[2] \in 1..12
    /\ k[3] \in 1..GregorianMonthLength(k[1], k[2])

\* The calendar day after k.
CalendarNext(k) ==
    IF k[3] < GregorianMonthLength(k[1], k[2]) THEN <<k[1], k[2], k[3] + 1>>
    ELSE IF k[2] < 12 THEN <<k[1], k[2] + 1, 1>>
    ELSE <<k[1] + 1, 1, 1>>

RECURSIVE CalendarPlus(_, _)
CalendarPlus(k, n) == IF n = 0 THEN k ELSE CalendarPlus(CalendarNext(k), n - 1)

\* The day of the year of k.
CalendarOrdinal(k) ==
    LET before == <<0, 31, 59, 90, 120, 151, 181, 212, 243, 273, 304, 334>>
    IN  before[k[2]] + k[3] + (IF k[2] > 2 /\ GregorianLeap(k[1]) THEN 1 ELSE 0)

\* The weekday label of k, by Sakamoto's method.
CalendarLabel(k) ==
    LET t == <<0, 3, 2, 5, 0, 3, 5, 1, 4, 6, 2, 4>>
        y == IF k[2] < 3 THEN k[1] - 1 ELSE k[1]
        w == (y + (y \div 4) - (y \div 100) + (y \div 400) + t[k[2]] + k[3]) % 7
    IN  <<"Sun", "Mon", "Tue", "Wed", "Thu", "Fri", "Sat">>[w + 1]

\* The decoder has just read the n-th key of the data table, n > 1.
FurtherKeyRead == Len(srcKeys) >= 2 /\ Len(srcKeys) = Len(srcVals) + 1

\* The decoder has just read the value of the n-th entry of the data table.
ValueRead == Len(srcVals) >= 1 /\ Len(srcVals) = Len(srcKeys)

LastKey == srcKeys[Len(srcKeys)]
LastVal == srcVals[Len(srcVals)]

-----------------------------------------------------------------------------
(* Properties of the decoder (checked under Spec).                         *)

\* C1: the data decode succeeds only if every key is the calendar day after
\* the key before it; a key that is a date but not that day (a gap, a
\* repeated date, an earlier date) ends the decode at once with an error
\* that states the found date and the expected date; a Log holds one day per
\* key, so no gap is filled.
C1_KeysContinuous ==
    /\ FurtherKeyRead =>
          LET expected == CalendarNext(srcKeys[Len(srcKeys) - 1])
          IN  IF LastKey = expected THEN pc = "data_value"
              ELSE /\ pc = "returned"
                   /\ result.tag = "Err"
                   /\ IsCalendarDate(LastKey) =>
                         /\ result.kind = "invalid value, expected"
                         /\ result.found = LastKey
                         /\ result.expected = expected
    /\ result.tag = "Log" =>
          /\ \A j \in 2..Len(srcKeys) : srcKeys[j] = CalendarNext(srcKeys[j - 1])
          /\ Len(result.days) = Len(srcKeys)

\* 2024-01-01 followed by 2024-01-03: expected 2024-01-02, found 2024-01-03.
C1_Witness ==
    /\ srcKeys = <<<<2024, 1, 1>>, <<2024, 1, 3>>>>
    /\ pc = "returned"
    /\ result.tag = "Err"
    /\ result.kind = "invalid value, expected"
    /\ result.found = <<2024, 1, 3>>
    /\ result.expected = <<2024, 1, 2>>

\* C2: the root decode returns a Log only for a document whose top-level
\* keys are exactly "highlights" and then "data".
C2_ExactlyTwoTopLevelKeys ==
    result.tag = "Log" => topKeys = <<"highlights", "data">>

\* C3: the label of every data entry, the first included, must be the
\* abbreviation of the weekday of the entry's date, else the decode ends
\* with an error; in a Log the label at position i is the weekday of
\* start_date + i.
C3_LabelIsWeekday ==
    /\ (ValueRead /\ LastVal.nkeys >= 1 /\ LastVal.label # CalendarLabel(LastKey)) =>
          /\ pc = "returned"
          /\ result.tag = "Err"
          /\ result.kind = "invalid value"
          /\ result.found = LastVal.label
          /\ result.expected = CalendarLabel(LastKey)
    /\ result.tag = "Log" =>
          \A i \in 1..Len(srcVals) :
             /\ srcVals[i].nkeys >= 1
             /\ srcVals[i].label =
                   CalendarLabel(CalendarPlus(Date_display(result.start_date), i - 1))

\* The first entry, a Monday, labelled "Tue".
C3_Witness ==
    /\ srcKeys = <<<<2024, 1, 1>>>>
    /\ Len(srcVals) = 1
    /\ srcVals[1].label = "Tue"
    /\ pc = "returned"
    /\ result.tag = "Err"
    /\ result.kind = "invalid value"
    /\ result.expected = "Mon"

\* A highlight record that passes every rule for records.
RecordValid(e) ==
    /\ e.shape \in {"rectangle", "circle"}
    /\ MatchesColourPattern(e.colour)
    /\ ~e.extra

\* The highlights cursor has yielded an entry named as an earlier one.
NameRepeated ==
    /\ Len(srcHl) >= 2
    /\ \E i \in 1..(Len(srcHl) - 1) : srcHl[i].name = srcHl[Len(srcHl)].name

LastHl == srcHl[Len(srcHl)]

\* C4 as stated: two entries with the same name always end the decode with
\* the duplicate-name error for that name, whatever the entries hold, valid
\* or not.
C4_AlwaysDuplicateError ==
    NameRepeated =>
        /\ pc = "returned"
        /\ result.tag = "Err"
        /\ result.kind = "duplicate highlight"
        /\ result.found = LastHl.name

\* C4 amended: an entry named as an earlier one always ends the decode with
\* an error; the error is the duplicate-name error for that name when the
\* entry's record is valid, whether or not it equals the earlier record, and
\* the record's own error when the record is invalid.
C4_DuplicateFails ==
    NameRepeated =>
        /\ pc = "returned"
        /\ result.tag = "Err"
        /\ IF RecordValid(LastHl)
           THEN result.kind = "duplicate highlight" /\ result.found = LastHl.name
           ELSE result.kind \in {"unknown variant", "unknown field",
                                 "colour must start with #",
                                 "colour must contain 6 hex digits"}

\* Two valid records of different shapes under the name "sick".
C4_Witness ==
    /\ Len(srcHl) = 2
    /\ srcHl[1].name = "sick" /\ srcHl[2].name = "sick"
    /\ srcHl[1].shape = "rectangle" /\ srcHl[2].shape = "circle"
    /\ RecordValid(srcHl[2])
    /\ result.tag = "Err"
    /\ result.kind = "duplicate highlight"
    /\ result.found = "sick"

\* The position, from 0, at which the highlights table declared the name.
DeclaredAt(name) == (CHOOSE i \in 1..Len(srcHl) : srcHl[i].name = name) - 1

Declared(name) == \E i \in 1..Len(srcHl) : srcHl[i].name = name

\* The outcome of day decoding on the day string s.
DayOutcome(s) ==
    IF s = "" THEN Ok([highlight |-> 2147483647])
    ELSE IF Declared(s) THEN Ok([highlight |-> DeclaredAt(s)])
    ELSE Err("no known highlight", s, "")

\* C5: a day string decodes in one of three ways: the empty string to the
\* sentinel, without error, also when a highlight is named by the empty
\* string; a declared name to the index at which it was declared; any other
\* string to an error that identifies the name.
C5_DayThreeCases ==
    /\ \A i \in 1..Len(days) : Ok(days[i]) = DayOutcome(srcVals[i].day)
    /\ (ValueRead /\ LastVal.nkeys >= 1 /\ LastVal.label = CalendarLabel(LastKey)) =>
          LET out == DayOutcome(LastVal.day)
          IN  IF out.tag = "Ok"
              THEN /\ Len(days) = Len(srcVals)
                   /\ result.tag # "Err"
              ELSE /\ Len(days) = Len(srcVals) - 1
                   /\ pc = "returned"
                   /\ result.tag = "Err"
                   /\ result.kind = "no known highlight"
                   /\ result.found = LastVal.day

\* With the empty string declared at index 0 and "sick" at index 1, the day
\* "sick" decoded to 1 and the day "" to the sentinel.
C5_Witness ==
    /\ Len(srcHl) = 2
    /\ srcHl[1].name = "" /\ srcHl[2].name = "sick"
    /\ Len(days) = 2
    /\ srcVals[1].day = "sick" /\ days[1].highlight = 1
    /\ srcVals[2].day = "" /\ days[2].highlight = 2147483647

\* The Highlight that a valid record decodes to.
ExpectedHighlight(e) ==
    [shape |-> IF e.shape = "rectangle" THEN "Rectangle" ELSE "Circle",
     colour |-> NaiveDecode(Tail(e.colour)).val]

\* What days() is to yield for the day string s.
ExpectedAnnotation(s) ==
    IF s = "" THEN None ELSE Some(ExpectedHighlight(srcHl[DeclaredAt(s) + 1]))

\* C8: in a decoded log start_date() is the first data key, days().len() is
\* the number of entries of the data table, the i-th element that days()
\* yields is the annotation of the i-th entry, whose key is start_date + i,
\* and the table was read to its end.
C8_DaysAreTheDataEntries ==
    result.tag = "Log" =>
        LET yielded == Days_collect(Log_days(result))
        IN  /\ dataAtEnd
            /\ Len(srcKeys) >= 1
            /\ Log_start_date(result).year = srcKeys[1][1]
            /\ Log_start_date(result).ordinal = CalendarOrdinal(srcKeys[1])
            /\ Len(srcVals) = Len(srcKeys)
            /\ Days_len(Log_days(result)) = Len(srcKeys)
            /\ Len(yielded) = Len(srcKeys)
            /\ \A i \in 1..Len(srcKeys) :
                  /\ srcKeys[i] = CalendarPlus(srcKeys[1], i - 1)
                  /\ yielded[i] = ExpectedAnnotation(srcVals[i].day)

\* Three days from Monday 2024-01-01, the second one "sick", under one
\* highlight: days() yields None, the highlight, None.
C8_Witness ==
    /\ result.tag = "Log"
    /\ srcKeys = <<<<2024, 1, 1>>, <<2024, 1, 2>>, <<2024, 1, 3>>>>
    /\ Len(result.highlights) = 1
    /\ Days_collect(Log_days(result)) = <<None, Some(result.highlights[1]), None>>

\* Every entry of the document passes every validation rule.
DocumentValid ==
    /\ topKeys = <<"highlights", "data">>
    /\ \A i \in 1..Len(srcHl) : RecordValid(srcHl[i])
    /\ \A i, j \in 1..Len(srcHl) : i # j => srcHl[i].name # srcHl[j].name
    /\ Len(srcKeys) >= 1
    /\ Len(srcVals) = Len(srcKeys)
    /\ IsCalendarDate(srcKeys[1])
    /\ \A j \in 2..Len(srcKeys) : srcKeys[j] = CalendarNext(srcKeys[j - 1])
    /\ \A i \in 1..Len(srcVals) :
          /\ srcVals[i].nkeys = 1
          /\ srcVals[i].label = CalendarLabel(srcKeys[i])
          /\ srcVals[i].day = "" \/ Declared(srcVals[i].day)

\* C9: decode is all or nothing: an error of a nested stage is what the root
\* decode returns, with no Log, and a Log is returned only when every entry
\* of the document has passed every validation rule.
C9_AllOrNothing ==
    /\ result.tag = "Err" => pc = "returned"
    /\ pc = "returned" => result.tag \in {"Err", "Log"}
    /\ result.tag = "Log" => DocumentValid

\* C10: a data table with no entry always ends the decode with the
\* "non-empty table" error, whatever the highlights table holds, and no Log
\* has an empty sequence of days.
C10_EmptyDataFails ==
    /\ (dataAtEnd /\ srcKeys = <<>>) =>
          /\ pc = "returned"
          /\ result.tag = "Err"
          /\ result.kind = "invalid length"
          /\ result.found = 0
          /\ result.expected = "a non-empty table"
    /\ result.tag = "Log" => Len(result.days) >= 1

\* An empty data table after a highlights table of two entries.
C10_Witness ==
    /\ dataAtEnd
    /\ srcKeys = <<>>
    /\ Len(srcHl) = 2
    /\ result.tag = "Err"
    /\ result.kind = "invalid length"

\* C11: the value of a data entry must be a map of exactly one entry: once
\* the decoder has read a value map that carries a further key after the
\* weekday label, the decode has ended with an error.
C11_ExtraDayKeyRejected ==
    (ValueRead /\ LastVal.nkeys > 1) =>
        /\ pc = "returned"
        /\ result.tag = "Err"

\* C12: the decode never aborts: in particular, after every data entry that
\* was decoded and pushed, the step that advances current_date by one day
\* succeeds, also when the entry's key is the last date there is.
C12_AdvanceNeverAborts ==
    ~(pc = "panicked" /\ Len(srcVals) >= 1 /\ Len(days) = Len(srcVals))

\* The iterator of days() after n calls of next.
RECURSIVE DaysAfter(_, _)
DaysAfter(d, n) == IF n = 0 THEN d ELSE DaysAfter(Days_advance(d), n - 1)

\* C13: the lookup built during the decode maps each name to the position
\* of its own record, below highlights.len() and never the sentinel; each
\* Day holds the sentinel or an index below highlights.len(); so in a Log
\* no call of Days::next, in any number, indexes the highlight table out of
\* range.
C13_DayIndicesInRange ==
    /\ \A n \in DOMAIN indices :
          /\ Declared(n)
          /\ indices[n] = DeclaredAt(n)
          /\ indices[n] < Len(highlights)
          /\ indices[n] # 2147483647
          /\ highlights[indices[n] + 1] = ExpectedHighlight(srcHl[DeclaredAt(n) + 1])
    /\ \A i \in 1..Len(days) :
          \/ days[i].highlight = 2147483647
          \/ days[i].highlight \in 0..(Len(highlights) - 1)
    /\ result.tag = "Log" =>
          /\ \A i \in 1..Len(result.days) :
                \/ result.days[i].highlight = 2147483647
                \/ result.days[i].highlight \in 0..(Len(result.highlights) - 1)
          /\ \A n \in 0..(Len(result.days) + 1) :
                Days_next(DaysAfter(Log_days(result), n)).tag # "Panic"

\* A Log of two highlights whose days hold the last index and the sentinel.
C13_Witness ==
    /\ result.tag = "Log"
    /\ Len(result.highlights) = 2
    /\ Len(result.days) = 2
    /\ result.days[1].highlight = 1
    /\ result.days[2].highlight = 2147483647
    /\ Days_collect(Log_days(result)) = <<Some(result.highlights[2]), None>>

-----------------------------------------------------------------------------
(* Properties of pdf::render's loop over the years (checked under          *)
(* SpecRender).                                                            *)

GregorianYearLength(y) == IF GregorianLeap(y) THEN 366 ELSE 365

\* The number of the day with ordinal ord of year y, counted from 0001-01-01.
DayNumber(y, ord) ==
    365 * (y - 1) + ((y - 1) \div 4) - ((y - 1) \div 100) + ((y - 1) \div 400) + ord

\* The ways an iteration of the loop can abort.
RenderAborts ==
    {"render_panicked_next_day", "render_panicked_index",
     "render_assert_failed", "render_panicked_draw"}

\* The year of the i-th day (from 0) of the log.
LogDayYear(i) ==
    LET no == DayNumber(result.start_date.year, result.start_date.ordinal) + i
    IN  CHOOSE y \in result.start_date.year..(result.start_date.year + Len(result.days)) :
            no \in DayNumber(y, 1)..DayNumber(y, GregorianYearLength(y))

\* What the lists built so far hold and what is left of the log's days.  It
\* holds in every state of SpecRender: up to the iteration that aborts, the
\* years are cut as C14 says.
RenderListsAsLog ==
    LET first == result.start_date.year
        startNo == DayNumber(first, result.start_date.ordinal)
        n == Len(result.days)
        logDays == Days_collect(Log_days(result))
        left == {i \in 0..(n - 1) : LogDayYear(i) > first + Len(rPages) - 1}
    IN  /\ \A p \in 1..Len(rPages) :
              /\ rPages[p].year = first + p - 1
              /\ rPages[p].year <= LogDayYear(n - 1)
              /\ Len(rPages[p].days) = GregorianYearLength(rPages[p].year)
              /\ \A s \in 1..Len(rPages[p].days) :
                    LET i == DayNumber(rPages[p].year, s) - startNo
                    IN  rPages[p].days[s] =
                            IF i \in 0..(n - 1) THEN logDays[i + 1] ELSE None
        /\ pc \in {"render_loop", "rendered"} =>
              /\ Days_len(rIter) = Cardinality(left)
              /\ rIter.iter = SubSeq(result.days, n - Cardinality(left) + 1, n)
        /\ pc = "rendered" =>
              /\ Len(rPages) = LogDayYear(n - 1) - first + 1
              /\ Days_len(rIter) = 0

\* C14: for every decoded log each iteration of render's loop over the years
\* builds a list of exactly days_in_year(year) slots (no iteration aborts,
\* the assertion holds), the slot of date d holds the log's day for d when
\* start_date <= d < start_date + len and None otherwise, the log's days are
\* consumed once each and in order, and the loop ends after the year of the
\* last log day.
C14_YearListsHoldTheLog ==
    /\ pc \notin RenderAborts
    /\ RenderListsAsLog

=============================================================================
